---- MODULE Spec2Model ----
(***************************************************************************)
(* A model of the actualbudget Home Assistant integration:                 *)
(*   - the session lifecycle manager of ActualAPI (actual.py),             *)
(*   - the polled sensor entities (sensor.py),                             *)
(*   - the budget row aggregation of ActualAPI._get_budgets (actual.py),   *)
(*   - the config flow (config_flow.py).                                   *)
(* Times are in seconds.                                                   *)
(***************************************************************************)
EXTENDS Integers, Sequences, FiniteSets, TLC

(***************************************************************************)
(* Program constants.                                                      *)
(***************************************************************************)
\* actual.py:53  SESSION_TIMEOUT = timedelta(minutes=30)
SESSION_TIMEOUT == 1800
\* sensor.py:43  MINIMUM_INTERVAL = datetime.timedelta(minutes=1)
MINIMUM_INTERVAL == 60

(***************************************************************************)
(* Bounds of the model.                                                    *)
(***************************************************************************)
\* executor threads that call into one ActualAPI at the same time
NumThreads == 2
\* Actual(...) objects one ActualAPI constructs in a run
MaxHandles == 3
\* the clock of the session manager stops here
MaxTime == 2700
\* the clock of a sensor stops here
MaxSensorTime == 120
\* async_update calls of one sensor in a run
MaxUpdates == 3
\* raw budget rows of one category
MaxRows == 2
\* raw budget rows get_budgets returns for the whole file
MaxBudgetRows == 3
\* config flows in progress at the same time
NumFlows == 2
\* forms one config flow submits
MaxSubmits == 2
\* config entries of the integration that are set up, unloaded and reloaded
NumEntries == 2
\* service calls dispatched in a run
MaxCalls == 2

Threads == 1..NumThreads
Handles == 1..MaxHandles
\* the clock of the session manager advances in steps of a quarter of an hour
TickLen == SESSION_TIMEOUT \div 2

VARIABLES
    now,                 \* datetime.now()
    actual,              \* ActualAPI.actual: the cached handle, 0 for None
    session_started_at,  \* ActualAPI.session_started_at
    constructed_at,      \* when the cached handle was constructed (actual.py:148)
    lock,                \* ActualAPI._lock: the thread that holds it, 0 when free
    handles,             \* every Actual object constructed so far
    nextHandle,          \* the identity of the next Actual object
    calls,               \* per thread: the call it is executing
    sensor,              \* one sensor entity: its fields
    update,              \* the async_update call of the sensor in progress
    fetchLog,            \* the API calls the sensor made: when, and how they ended
    budgets_raw,         \* _get_budgets: the rows get_budgets(session) returned
    budgets_pc,          \* _get_budgets: "called" or "returned"
    budgets_out,         \* _get_budgets: the list it returned
    flows,               \* the config flows: step, input, result of the test
    entries,             \* the config entries of the integration
    data,                \* hass.data[DOMAIN]: the entry ids, in insertion order
    registered,          \* the four services are registered
    loaded,              \* per entry: the entry is set up
    ops,                 \* per entry: the setup, unload or reload in progress
    svc                  \* the service call in progress

sessionVars == <<now, actual, session_started_at, constructed_at, lock, handles, nextHandle, calls>>

sensorVars == <<sensor, update, fetchLog>>

budgetsVars == <<budgets_raw, budgets_pc, budgets_out>>

flowVars == <<flows, entries>>

setupVars == <<data, registered, loaded, ops, svc>>

vars == <<sessionVars, sensorVars, budgetsVars, flowVars, setupVars>>

\* What the session manager leaves alone, and what a sensor leaves alone.
notSession == <<sensorVars, budgetsVars, flowVars, setupVars>>
notSensor ==
    <<actual, session_started_at, constructed_at, lock, handles, nextHandle, calls,
      budgetsVars, flowVars, setupVars>>
notBudgets == <<sessionVars, sensorVars, flowVars, setupVars>>
notFlow == <<sessionVars, sensorVars, budgetsVars, setupVars>>
notSetup == <<sessionVars, sensorVars, budgetsVars, flowVars>>

(***************************************************************************)
(* Session manager: ActualAPI.get_session, _create_session, _sync.         *)
(***************************************************************************)

\* An Actual object that has not been constructed.
NoHandle == "none"

\* A thread that executes no call.
IdleCall ==
    [pc |-> "idle", op |-> "none", startedAt |-> 0, known |-> 0,
     emptyAtStart |-> FALSE, peers |-> {}, local |-> 0, localAt |-> 0,
     stampedAt |-> 0,
     events |-> <<>>, res |-> "none", err |-> "none", resHandle |-> 0,
     resStamp |-> 0, resConstructed |-> 0]

\* ActualAPI.__init__: no handle, the timestamp of the construction, a free lock.
SessionInit ==
    /\ now = 0
    /\ actual = 0
    /\ session_started_at = 0
    /\ constructed_at = 0
    /\ lock = 0
    /\ handles = [h \in Handles |-> NoHandle]
    /\ nextHandle = 1
    /\ calls = [t \in Threads |-> IdleCall]

\* The lock taken for free whoever holds it, as if the with statement were
\* missing.
LockFreeUnguarded(t) == TRUE

\* threading.Lock is not reentrant: acquire succeeds only on a free lock,
\* whoever holds it.
LockFree(t) == lock = 0

\* The comparison of line 110 turned around.
ExpiredReversed ==
    /\ actual # 0
    /\ session_started_at + SESSION_TIMEOUT > now

\* actual.py:108-111: the cached handle is too old.
Expired ==
    /\ actual # 0
    /\ session_started_at + SESSION_TIMEOUT < now

\* The result of validate() taken for validated whenever validate() returns.
ValidationPassesUnchecked(o) == o # "raises"

\* actual.py:121-123, 161-165: validate() returned and reported validated.
ValidationPasses(o) == o = "validated"

\* The events of a call: <<method, handle, outcome>> in the order of the calls
\* made on the client library.
Ev(m, h, o) == [m |-> m, h |-> h, o |-> o]

Active == {t \in Threads : calls[t].pc # "idle"}

\* The threads that are inside a call that has not returned yet.
Running == {t \in Threads : calls[t].pc \notin {"idle", "done"}}

\* Thread t starts a call of operation op: the call remembers the time, the
\* Actual objects that exist, whether the cache is empty and the calls it
\* overlaps with.
Started(t, op, first) ==
    [u \in Threads |->
        IF u = t
        THEN [IdleCall EXCEPT !.pc = first, !.op = op, !.startedAt = now,
                              !.known = nextHandle,
                              !.emptyAtStart = (actual = 0),
                              !.peers = Running \ {t}]
        ELSE [calls[u] EXCEPT !.peers = @ \ {t}]]

\* A call may construct one Actual object: a call starts only while the model
\* has an identity left for it.
MayStart == (nextHandle - 1) + Cardinality(Active) + 1 <= MaxHandles

\* A data accessor (_get_accounts, _get_account, _get_budgets, _get_budget,
\* _get_uncategorized_transactions_count, _test_connection) calls get_session.
CallGetSession(t) ==
    /\ calls[t].pc = "idle"
    /\ MayStart
    /\ calls' = Started(t, "get_session", "gs_lock")
    /\ UNCHANGED <<now, actual, session_started_at, constructed_at, lock, handles, nextHandle>>
    /\ UNCHANGED notSession

\* _sync is entered: it waits for the lock (actual.py:176).
CallSync(t) ==
    /\ calls[t].pc = "idle"
    /\ MayStart
    /\ calls' = Started(t, "sync", "sy_lock")
    /\ UNCHANGED <<now, actual, session_started_at, constructed_at, lock, handles, nextHandle>>
    /\ UNCHANGED notSession

\* _sync takes the lock and, holding it, calls get_session (actual.py:176-177),
\* which waits for the same lock (actual.py:106).  Lines 178-179 follow the
\* return of that call.
SyncAcquire(t) ==
    /\ calls[t].pc = "sy_lock"
    /\ LockFree(t)
    /\ lock' = t
    /\ calls' = [calls EXCEPT ![t].pc = "gs_lock"]
    /\ UNCHANGED <<now, actual, session_started_at, constructed_at, handles, nextHandle>>
    /\ UNCHANGED notSession

\* get_session: with self._lock (actual.py:106).
GsAcquire(t) ==
    /\ calls[t].pc = "gs_lock"
    /\ LockFree(t)
    /\ lock' = t
    /\ calls' = [calls EXCEPT ![t].pc = "gs_expire"]
    /\ UNCHANGED <<now, actual, session_started_at, constructed_at, handles, nextHandle>>
    /\ UNCHANGED notSession

\* actual.py:107-116: a handle that is too old is closed and forgotten; an
\* exception of __exit__ is logged and the handle is forgotten all the same
\* ("exit_raised": __exit__ was called on it and did not complete).
GsExpire(t) ==
    /\ calls[t].pc = "gs_expire"
    /\ \/ /\ Expired
          /\ \E o \in {"ok", "raises"} :
                /\ handles' = [handles EXCEPT ![actual] =
                                  IF o = "ok" THEN "closed" ELSE "exit_raised"]
                /\ calls' = [calls EXCEPT
                      ![t].events = Append(@, Ev("exit", actual, o)),
                      ![t].pc = "gs_validate"]
          /\ actual' = 0
       \/ /\ ~Expired
          /\ calls' = [calls EXCEPT ![t].pc = "gs_validate"]
          /\ UNCHANGED <<actual, handles>>
    /\ UNCHANGED <<now, session_started_at, constructed_at, lock, nextHandle>>
    /\ UNCHANGED notSession

\* actual.py:118-123, 126-128: validate() of the cached handle; an exception
\* or a result that is not validated forgets the handle (without closing it).
GsValidate(t) ==
    /\ calls[t].pc = "gs_validate"
    /\ \/ /\ actual # 0
          /\ \E o \in {"validated", "not_validated", "raises"} :
                /\ calls' = [calls EXCEPT
                      ![t].events = Append(@, Ev("validate", actual, o)),
                      ![t].pc = IF ValidationPasses(o) THEN "gs_sync" ELSE "gs_create"]
                /\ actual' = IF ValidationPasses(o) THEN actual ELSE 0
       \/ /\ actual = 0
          /\ calls' = [calls EXCEPT ![t].pc = "gs_create"]
          /\ UNCHANGED actual
    /\ UNCHANGED <<now, session_started_at, constructed_at, lock, handles, nextHandle>>
    /\ UNCHANGED notSession

\* actual.py:124-128: sync() of the validated handle; an exception forgets the
\* handle.  Otherwise line 131 finds the handle and the lock is released.
GsSync(t) ==
    /\ calls[t].pc = "gs_sync"
    /\ \E o \in {"ok", "raises"} :
          /\ calls' = [calls EXCEPT
                ![t].events = Append(@, Ev("sync", actual, o)),
                ![t].pc = IF o = "ok" THEN "gs_return" ELSE "gs_create"]
          /\ actual' = IF o = "ok" THEN actual ELSE 0
          /\ lock' = IF o = "ok" THEN 0 ELSE lock
    /\ UNCHANGED <<now, session_started_at, constructed_at, handles, nextHandle>>
    /\ UNCHANGED notSession

\* actual.py:131-132, 148-158: no handle is cached, so _create_session
\* constructs an Actual object and enters it.  An exception of __enter__
\* leaves get_session through the with statement, which releases the lock.
GsCreate(t) ==
    /\ calls[t].pc = "gs_create"
    /\ actual = 0
    /\ nextHandle <= MaxHandles
    /\ \E o \in {"ok", "raises"} :
          /\ handles' = [handles EXCEPT ![nextHandle] =
                                  IF o = "ok" THEN "open" ELSE "new"]
          /\ calls' = [calls EXCEPT
                ![t].events = Append(@, Ev("enter", nextHandle, o)),
                ![t].local = nextHandle,
                ![t].localAt = now,
                ![t].pc = IF o = "ok" THEN "gs_new_validate" ELSE "done",
                ![t].res = IF o = "ok" THEN "none" ELSE "raised",
                ![t].err = IF o = "ok" THEN "none" ELSE "create"]
          /\ lock' = IF o = "ok" THEN lock ELSE 0
    /\ nextHandle' = nextHandle + 1
    /\ UNCHANGED <<now, actual, session_started_at, constructed_at>>
    /\ UNCHANGED notSession

\* actual.py:160-168: validate() of the new handle; a result that is not
\* validated raises Exception("Session not validated"), and so does an
\* exception of validate(): the handle is abandoned and the lock released.
GsNewValidate(t) ==
    /\ calls[t].pc = "gs_new_validate"
    /\ \E o \in {"validated", "not_validated", "raises"} :
          /\ calls' = [calls EXCEPT
                ![t].events = Append(@, Ev("validate", calls[t].local, o)),
                ![t].pc = IF ValidationPasses(o) THEN "gs_store" ELSE "done",
                ![t].res = IF ValidationPasses(o) THEN "none" ELSE "raised",
                ![t].err = IF ValidationPasses(o) THEN "none" ELSE "create"]
          /\ lock' = IF ValidationPasses(o) THEN lock ELSE 0
    /\ UNCHANGED <<now, actual, session_started_at, constructed_at, handles, nextHandle>>
    /\ UNCHANGED notSession

\* actual.py:132-133: the new handle is cached and stamped; the with statement
\* ends and the lock is released.
GsStore(t) ==
    /\ calls[t].pc = "gs_store"
    /\ actual' = calls[t].local
    /\ session_started_at' = now
    /\ constructed_at' = calls[t].localAt
    /\ lock' = 0
    /\ calls' = [calls EXCEPT
          ![t].events = Append(@, Ev("store", calls[t].local, "ok")),
          ![t].stampedAt = now,
          ![t].pc = "gs_return"]
    /\ UNCHANGED <<now, handles, nextHandle>>
    /\ UNCHANGED notSession

\* actual.py:135: return self.actual.session, read after the lock is released.
\* None has no attribute session: AttributeError.
GsReturn(t) ==
    /\ calls[t].pc = "gs_return"
    /\ calls' = [calls EXCEPT
          ![t].pc = "done",
          ![t].res = IF actual = 0 THEN "raised" ELSE "session",
          ![t].err = IF actual = 0 THEN "attribute" ELSE "none",
          ![t].resHandle = actual,
          ![t].resStamp = IF actual = 0 THEN 0 ELSE session_started_at,
          ![t].resConstructed = IF actual = 0 THEN 0 ELSE constructed_at]
    /\ UNCHANGED <<now, actual, session_started_at, constructed_at, lock, handles, nextHandle>>
    /\ UNCHANGED notSession

\* The caller has the result; the thread goes back to the pool.
Finish(t) ==
    /\ calls[t].pc = "done"
    /\ calls' = [calls EXCEPT ![t] = IdleCall]
    /\ UNCHANGED <<now, actual, session_started_at, constructed_at, lock, handles, nextHandle>>
    /\ UNCHANGED notSession

\* Time passes.
Tick ==
    /\ now + TickLen <= MaxTime
    /\ now' = now + TickLen
    /\ UNCHANGED <<actual, session_started_at, constructed_at, lock, handles, nextHandle, calls>>
    /\ UNCHANGED notSession

ThreadStep(t) ==
    \/ CallGetSession(t)
    \/ CallSync(t)
    \/ SyncAcquire(t)
    \/ GsAcquire(t)
    \/ GsExpire(t)
    \/ GsValidate(t)
    \/ GsSync(t)
    \/ GsCreate(t)
    \/ GsNewValidate(t)
    \/ GsStore(t)
    \/ GsReturn(t)
    \/ Finish(t)

SessionNext == Tick \/ \E t \in Threads : ThreadStep(t)

(***************************************************************************)
(* Sensor entities: ActualAccountSensor, ActualBudgetSensor,               *)
(* ActualUncategorizedTransactionsSensor (sensor.py), and the record       *)
(* ActualAPI._get_budget builds for the budget sensor (actual.py).         *)
(*                                                                         *)
(* Money is counted in hundredths of the currency unit: a raw amount of n  *)
(* cents becomes float(n) / 100 units, that is n hundredths, and           *)
(* round(x, 2) keeps hundredths.  A month is the integer YYYYMM of the raw *)
(* row; str() of it sorts as the integer does.  The clock of a sensor      *)
(* starts at 2024-02-01 00:00:00.                                          *)
(***************************************************************************)

\* An optional number: <<>> is None, <<v>> is v.
None == <<>>
Some(v) == <<v>>

Months == {202401, 202402, 202403}
RawAmounts == {None, Some(0), Some(1250)}
Counts == {0, 2}
\* The id and the balance of an account; the id, the group and the balance of a
\* category ("" stands for no group).
AccountData == {[id |-> "id-1", balance |-> -200], [id |-> "id-2", balance |-> 500]}
CategoryData ==
    {[id |-> "id-1", group |-> "", balance |-> -200],
     [id |-> "id-2", group |-> "Bills", balance |-> 500]}

\* The raw rows get_budgets(session, None, name) returns for one category.
RawRows == UNION {[1..n -> [month : Months, amount : RawAmounts]] : n \in 0..MaxRows}

\* datetime.strptime(month, '%Y%m'): the first instant of the month, in
\* seconds of the sensor clock (January 2024 has 31 days, February 29).
MonthStart(m) ==
    CASE m = 202401 -> 0 - 31 * 86400
      [] m = 202402 -> 0
      [] m = 202403 -> 29 * 86400

\* actual.py:289: None if not budget_raw.amount else float(budget_raw.amount) / 100
ToAmount(raw) == IF raw = None \/ raw = Some(0) THEN None ELSE raw

\* actual.py:288-291: one BudgetAmount per raw row, in the order of the rows.
ToAmounts(rows) ==
    [i \in 1..Len(rows) |-> [month |-> rows[i].month, amount |-> ToAmount(rows[i].amount)]]

\* sorted(amounts, key=lambda x: x.month): a stable insertion sort.
RECURSIVE InsertByMonth(_, _)
InsertByMonth(sorted, a) ==
    IF sorted = <<>> THEN <<a>>
    ELSE IF sorted[Len(sorted)].month <= a.month
         THEN Append(sorted, a)
         ELSE Append(InsertByMonth(SubSeq(sorted, 1, Len(sorted) - 1), a),
                     sorted[Len(sorted)])

RECURSIVE SortByMonth(_)
SortByMonth(amounts) ==
    IF amounts = <<>> THEN <<>>
    ELSE InsertByMonth(SortByMonth(SubSeq(amounts, 1, Len(amounts) - 1)),
                       amounts[Len(amounts)])

\* actual.py:266-296: _get_budget for raw rows that are not empty: the Budget
\* record with its amounts sorted by month and the balance of the category.
GetBudget(rows, id, group, balance) ==
    [id |-> id, group_name |-> group,
     amounts |-> SortByMonth(ToAmounts(rows)), balance |-> balance]

\* The results the three API calls of the sensors can deliver.
ApiResults(kind) ==
    CASE kind = "account" -> AccountData
      [] kind = "budget" ->
            {GetBudget(rows, c.id, c.group, c.balance) :
                rows \in RawRows \ {<<>>}, c \in CategoryData}
      [] kind = "uncategorized" -> [count : Counts]

\* The constructors (sensor.py:112-134, 205-231, 327-340): the fields come
\* from the records async_setup_entry fetched (sensor.py:65-106).
NewSensor(kind, r, t) ==
    CASE kind = "account" ->
            [kind |-> kind, id |-> r.id, group_name |-> "", amounts |-> <<>>,
             balance |-> r.balance, count |-> 0, last_updated |-> t,
             available |-> TRUE]
      [] kind = "budget" ->
            [kind |-> kind, id |-> r.id, group_name |-> r.group_name,
             amounts |-> r.amounts, balance |-> r.balance, count |-> 0,
             last_updated |-> t, available |-> TRUE]
      [] kind = "uncategorized" ->
            [kind |-> kind, id |-> "", group_name |-> "", amounts |-> <<>>,
             balance |-> 0, count |-> 0, last_updated |-> t,
             available |-> TRUE]

\* No async_update call is in progress.
NoUpdate == [pc |-> "idle", outcome |-> "none", n |-> 0]

\* The comparison of the interval turned around.
TooSoonReversed(s) == now - s.last_updated > MINIMUM_INTERVAL

\* sensor.py:181-185, 301-305, 366-370: the last update is less than
\* MINIMUM_INTERVAL ago (a datetime is never falsy).
TooSoon(s) == now - s.last_updated < MINIMUM_INTERVAL

\* sensor.py:189-192, 309-314, 373-374: the fields a successful call sets.
OnApiResult(s, r) ==
    CASE s.kind = "account" ->
            [s EXCEPT !.balance = r.balance, !.id = r.id, !.last_updated = now]
      [] s.kind = "budget" ->
            [s EXCEPT !.last_updated = now, !.amounts = r.amounts,
                      !.balance = r.balance, !.id = r.id,
                      !.group_name = r.group_name]
      [] s.kind = "uncategorized" ->
            [s EXCEPT !.count = r.count, !.last_updated = now]

\* The timestamp set although the call failed, as if it were set before the
\* await.
OnApiErrorStamped(s) == [s EXCEPT !.available = FALSE, !.last_updated = now]

\* sensor.py:193-194, 315-316, 375-376: except Exception: _available = False.
OnApiError(s) == [s EXCEPT !.available = FALSE]

\* The month compared with < instead of <=.
MonthBeforeNow(m) == MonthStart(m) < now

\* sensor.py:268-273: the state of a budget sensor: the loop over _amounts.
MonthNotAfterNow(m) == MonthStart(m) <= now

RECURSIVE TotalUpTo(_, _)
TotalUpTo(amounts, k) ==
    IF k = 0 THEN 0
    ELSE TotalUpTo(amounts, k - 1)
         + (IF MonthNotAfterNow(amounts[k].month)
            THEN (IF amounts[k].amount # None /\ amounts[k].amount # Some(0)
                  THEN amounts[k].amount[1] ELSE 0)
            ELSE 0)

BudgetState(s) == s.balance + TotalUpTo(s.amounts, Len(s.amounts))

\* One sensor of one of the three classes, as async_setup_entry creates it.
SensorInit ==
    /\ now = 0
    /\ \E kind \in {"account", "budget", "uncategorized"} :
          \E r \in ApiResults(kind) : sensor = NewSensor(kind, r, now)
    /\ update = NoUpdate
    /\ fetchLog = <<>>

\* async_update is called (sensor.py:180-188, 300-308, 365-373): it returns at
\* once when the last update is too recent, and calls the API otherwise.
UpdateBegin ==
    /\ update.pc = "idle"
    /\ update.n < MaxUpdates
    /\ \/ /\ TooSoon(sensor)
          /\ update' = [pc |-> "returned", outcome |-> "skipped", n |-> update.n + 1]
          /\ UNCHANGED fetchLog
       \/ /\ ~TooSoon(sensor)
          /\ update' = [pc |-> "awaiting", outcome |-> "none", n |-> update.n + 1]
          /\ fetchLog' = Append(fetchLog, [at |-> now, done |-> now, ok |-> "pending"])
    /\ UNCHANGED <<now, sensor>>
    /\ UNCHANGED notSensor

\* The API call returns a record: the fields and the timestamp are set.
ApiReturns ==
    /\ update.pc = "awaiting"
    /\ \E r \in ApiResults(sensor.kind) : sensor' = OnApiResult(sensor, r)
    /\ update' = [update EXCEPT !.pc = "returned", !.outcome = "updated"]
    /\ fetchLog' = [fetchLog EXCEPT ![Len(fetchLog)].ok = "ok",
                                    ![Len(fetchLog)].done = now]
    /\ UNCHANGED now
    /\ UNCHANGED notSensor

\* The API call raises: the exception is caught, the entity is unavailable.
ApiRaises ==
    /\ update.pc = "awaiting"
    /\ sensor' = OnApiError(sensor)
    /\ update' = [update EXCEPT !.pc = "returned", !.outcome = "raised"]
    /\ fetchLog' = [fetchLog EXCEPT ![Len(fetchLog)].ok = "raised",
                                    ![Len(fetchLog)].done = now]
    /\ UNCHANGED now
    /\ UNCHANGED notSensor

\* async_update has returned to the entity platform.
UpdateEnd ==
    /\ update.pc = "returned"
    /\ update' = [update EXCEPT !.pc = "idle", !.outcome = "none"]
    /\ UNCHANGED <<now, sensor, fetchLog>>
    /\ UNCHANGED notSensor

\* Time passes for the sensor.
SensorTick ==
    /\ now + MINIMUM_INTERVAL \div 2 <= MaxSensorTime
    /\ now' = now + MINIMUM_INTERVAL \div 2
    /\ UNCHANGED <<sensor, update, fetchLog>>
    /\ UNCHANGED notSensor

SensorNext == UpdateBegin \/ ApiReturns \/ ApiRaises \/ UpdateEnd \/ SensorTick

(***************************************************************************)
(* ActualAPI._get_budgets (actual.py:212-257): the raw rows, one per       *)
(* category and month, grouped into one Budget per display name.  The      *)
(* dict budgets is a sequence of entries in insertion order.  A category   *)
(* without group has group "".                                             *)
(***************************************************************************)

\* The categories of the budget file; NoCategory is a row whose category is
\* None.
NoCategory == [id |-> "", name |-> "", group |-> ""]
Categories ==
    {[id |-> "c1", name |-> "Food", group |-> "Home"],
     [id |-> "c2", name |-> "Home - Food", group |-> ""],
     [id |-> "c3", name |-> "Food", group |-> ""]}
BudgetMonths == {202401, 202402}
BudgetRawAmounts == {Some(0), Some(1250)}

BudgetRow == [category : Categories \cup {NoCategory}, month : BudgetMonths,
              amount : BudgetRawAmounts]
BudgetRowLists == UNION {[1..n -> BudgetRow] : n \in 0..MaxBudgetRows}

\* get_category(session, name).balance, Decimal(0) when there is no such
\* category (actual.py:252-255).
CategoryBalance(name) ==
    CASE name = "Food" -> 500
      [] name = "Home - Food" -> -200
      [] OTHER -> 0

\* actual.py:227-231: "<group> - <category>", or "<category>" without group.
DisplayName(category) ==
    IF category.group # ""
    THEN category.group \o " - " \o category.name
    ELSE category.name

\* The index of the entry of key in the dict, 0 when there is none.
KeyIndex(dict, key) ==
    IF \E i \in 1..Len(dict) : dict[i].key = key
    THEN CHOOSE i \in 1..Len(dict) : dict[i].key = key
    ELSE 0

\* Every row opens a new Budget, as if the test of line 236 were missing: the
\* assignment replaces the entry of the key.
WithBudgetAlways(dict, key, category) ==
    LET fresh == [key |-> key, id |-> category.id, name |-> category.name,
                  group_name |-> category.group, amounts |-> <<>>, balance |-> 0]
    IN  IF KeyIndex(dict, key) = 0
        THEN Append(dict, fresh)
        ELSE [dict EXCEPT ![KeyIndex(dict, key)] = fresh]

\* actual.py:236-243: if display_name not in budgets: budgets[display_name] =
\* Budget(id, name, group_name, [], Decimal(0)).
WithBudget(dict, key, category) ==
    IF KeyIndex(dict, key) = 0
    THEN Append(dict, [key |-> key, id |-> category.id, name |-> category.name,
                       group_name |-> category.group, amounts |-> <<>>,
                       balance |-> 0])
    ELSE dict

\* actual.py:218-246: the body of the first loop for one row.
AddRow(dict, row) ==
    IF row.category = NoCategory
    THEN dict
    ELSE LET key == DisplayName(row.category)
             d == WithBudget(dict, key, row.category)
             k == KeyIndex(d, key)
         IN  [d EXCEPT ![k].amounts =
                 Append(@, [month |-> row.month, amount |-> ToAmount(row.amount)])]

\* actual.py:218-246: the first loop over the first k rows.
RECURSIVE GroupRows(_, _)
GroupRows(rows, k) ==
    IF k = 0 THEN <<>> ELSE AddRow(GroupRows(rows, k - 1), rows[k])

\* actual.py:248-257: the second loop sorts the amounts of every Budget by
\* month and sets its balance; the values of the dict are returned.
GetBudgets(rows) ==
    LET dict == GroupRows(rows, Len(rows))
    IN  [i \in 1..Len(dict) |->
            [dict[i] EXCEPT !.amounts = SortByMonth(@),
                            !.balance = CategoryBalance(dict[i].name)]]

BudgetsInit ==
    /\ budgets_raw \in BudgetRowLists
    /\ budgets_pc = "called"
    /\ budgets_out = <<>>

\* _get_budgets runs on the rows and returns.
GetBudgetsReturns ==
    /\ budgets_pc = "called"
    /\ budgets_out' = GetBudgets(budgets_raw)
    /\ budgets_pc' = "returned"
    /\ UNCHANGED budgets_raw
    /\ UNCHANGED notBudgets

BudgetsNext == GetBudgetsReturns

(***************************************************************************)
(* The config flow (config_flow.py) and the connection test it runs        *)
(* (ActualAPI.test_connection, actual.py:312-382).  The error code None is *)
(* the empty string.                                                       *)
(***************************************************************************)
FlowIds == 1..NumFlows
FileIds == {"ab", "AB", "cd"}

\* The file ID taken as it is.
LowerNot(file) == file

\* str.lower() of a file ID.
Lower(file) == IF file = "AB" THEN "ab" ELSE file

\* What get_session of the new ActualAPI does in the connection test: it
\* returns a session, returns a falsy session, or raises.
TestOutcomes ==
    {"session", "no_session", "SSLError", "ConnectionError", "AuthorizationError",
     "UnknownFileId", "InvalidFile", "InvalidZipFile", "not_validated", "Exception",
     "executor_raises", "constructor_raises"}

\* isinstance(o, cls) for the exceptions get_session raises: the SSLError of
\* requests is a ConnectionError (actual.py:47), every exception is an
\* Exception; "not_validated" is the Exception of actual.py:160-165.
IsInstance(o, cls) ==
    \/ o = cls
    \/ cls = "Exception"
    \/ o = "SSLError" /\ cls = "ConnectionError"

\* The except clauses with ConnectionError tried before SSLError.
ExceptClausesSwapped ==
    << [cls |-> "ConnectionError", code |-> "failed_connection"],
       [cls |-> "SSLError", code |-> "failed_ssl"],
       [cls |-> "AuthorizationError", code |-> "failed_auth"],
       [cls |-> "UnknownFileId", code |-> "failed_file"],
       [cls |-> "InvalidFile", code |-> "failed_file"],
       [cls |-> "InvalidZipFile", code |-> "failed_file"],
       [cls |-> "Exception", code |-> "failed_unknown"] >>

\* actual.py:344-382: the except clauses of _test_connection, in their order.
ExceptClauses ==
    << [cls |-> "SSLError", code |-> "failed_ssl"],
       [cls |-> "ConnectionError", code |-> "failed_connection"],
       [cls |-> "AuthorizationError", code |-> "failed_auth"],
       [cls |-> "UnknownFileId", code |-> "failed_file"],
       [cls |-> "InvalidFile", code |-> "failed_file"],
       [cls |-> "InvalidZipFile", code |-> "failed_file"],
       [cls |-> "Exception", code |-> "failed_unknown"] >>

\* The code of the first clause, from clause i on, that catches o.
RECURSIVE Caught(_, _)
Caught(o, i) ==
    IF IsInstance(o, ExceptClauses[i].cls)
    THEN ExceptClauses[i].code
    ELSE Caught(o, i + 1)

\* actual.py:325-382: the code the synchronous _test_connection returns: None
\* for a session, failed_file for a falsy one, the code of the clause that
\* catches what get_session raised.
TestConnectionSync(o) ==
    CASE o = "session" -> ""
      [] o = "no_session" -> "failed_file"
      [] OTHER -> Caught(o, 1)

\* actual.py:312-323: test_connection runs it in the executor; a failure of
\* the executor job is failed_unknown.
TestConnection(o) ==
    IF o = "executor_raises" THEN "failed_unknown" ELSE TestConnectionSync(o)

\* config_flow.py:95-124: the flow builds the ActualAPI and awaits its
\* test_connection; anything raised on the way is failed_unknown.
FlowTestConnection(o) ==
    IF o = "constructor_raises" THEN "failed_unknown" ELSE TestConnection(o)

\* Every result of the test taken for a success.
IsErrorNever(error) == FALSE

\* config_flow.py:81: if error.
IsError(error) == error # ""

\* A flow whose form is shown and not submitted yet (config_flow.py:49-51).
NewFlow ==
    [pc |-> "form", file |-> "", unique_id |-> "", outcome |-> "", result |-> "",
     errors |-> "", reason |-> "", n |-> 0, tests |-> 0]

FlowInit ==
    /\ flows = [f \in FlowIds |-> NewFlow]
    /\ entries = {}

\* Another flow in progress has this unique ID (async_set_unique_id raises
\* AbortFlow then).
InProgress(f, uid) ==
    \E g \in FlowIds \ {f} :
        /\ flows[g].pc \in {"form", "testing", "tested"}
        /\ flows[g].unique_id = uid

\* An entry has this unique ID (_abort_if_unique_id_configured raises
\* AbortFlow then).
Configured(uid) == \E e \in entries : e.unique_id = uid

\* config_flow.py:53-79: the form is submitted; the lower-cased file ID is
\* the unique ID; the flow aborts when it is known, and starts the connection
\* test otherwise.
Submit(f) ==
    /\ flows[f].pc = "form"
    /\ flows[f].n < MaxSubmits
    /\ \E file \in FileIds :
          LET uid == Lower(file)
          IN  flows' = [flows EXCEPT ![f] =
                  IF InProgress(f, uid)
                  THEN [@ EXCEPT !.pc = "aborted", !.file = file,
                                 !.reason = "already_in_progress", !.n = @ + 1,
                                 !.errors = "", !.result = "", !.outcome = ""]
                  ELSE IF Configured(uid)
                  THEN [@ EXCEPT !.pc = "aborted", !.file = file, !.unique_id = uid,
                                 !.reason = "already_configured", !.n = @ + 1,
                                 !.errors = "", !.result = "", !.outcome = ""]
                  ELSE [@ EXCEPT !.pc = "testing", !.file = file, !.unique_id = uid,
                                 !.n = @ + 1, !.tests = @ + 1, !.errors = "", !.result = "", !.outcome = ""]]
    /\ UNCHANGED entries
    /\ UNCHANGED notFlow

\* config_flow.py:77-79, 95-124: the connection test returns its code.
TestReturns(f) ==
    /\ flows[f].pc = "testing"
    /\ \E o \in TestOutcomes :
          flows' = [flows EXCEPT ![f].pc = "tested", ![f].outcome = o,
                                 ![f].result = FlowTestConnection(o)]
    /\ UNCHANGED entries
    /\ UNCHANGED notFlow

\* config_flow.py:81-93: the form is shown again with the error, or the entry
\* is created from the input.
Decide(f) ==
    /\ flows[f].pc = "tested"
    /\ IF IsError(flows[f].result)
       THEN /\ flows' = [flows EXCEPT ![f].pc = "form",
                                      ![f].errors = flows[f].result]
            /\ UNCHANGED entries
       ELSE /\ flows' = [flows EXCEPT ![f].pc = "created"]
            /\ entries' = entries \cup
                  {[unique_id |-> flows[f].unique_id, file |-> flows[f].file, by |-> f]}
    /\ UNCHANGED notFlow

FlowNext == \E f \in FlowIds : Submit(f) \/ TestReturns(f) \/ Decide(f)

(***************************************************************************)
(* The set-up of the config entries (__init__.py) and the services         *)
(* (services.py).  hass.data[DOMAIN] is a dict keyed by entry id: the      *)
(* sequence of its keys in insertion order, each key standing for the      *)
(* ActualAPI stored under it.  One entry runs one operation at a time;     *)
(* operations of different entries overlap at their awaits.                *)
(***************************************************************************)
EntryIds == 1..NumEntries
ServiceNames == {"get_transactions", "create_splits", "get_accounts", "bank_sync"}

NoOp == [pc |-> "none", reload |-> FALSE]
NoCall ==
    [pc |-> "idle", name |-> "", api |-> 0, result |-> "none", apiCalls |-> 0,
     apiOutcome |-> "none", n |-> 0, log |-> <<>>]

\* __init__.py:43: hass.data[DOMAIN][entry.entry_id] = api: a new key goes to
\* the end, a known key keeps its place.
Put(d, e) == IF \E i \in 1..Len(d) : d[i] = e THEN d ELSE Append(d, e)

\* __init__.py:62: hass.data[DOMAIN].pop(entry.entry_id).
Pop(d, e) == SelectSeq(d, LAMBDA x : x # e)

\* The services registered whenever an instance is stored.
OnlyOnceAlways(d) == Len(d) >= 1

\* __init__.py:49: if len(hass.data[DOMAIN]) == 1.
OnlyOnce(d) == Len(d) = 1

\* The last instance of the dict taken.
GetApiInstanceLast(d) == IF d = <<>> THEN 0 ELSE d[Len(d)]

\* services.py:30-34: _get_api_instance: None (0) when there is no instance,
\* the first value of the dict otherwise.
GetApiInstance(d) == IF d = <<>> THEN 0 ELSE d[1]

SetupInit ==
    /\ data = <<>>
    /\ registered = FALSE
    /\ loaded = [e \in EntryIds |-> FALSE]
    /\ ops = [e \in EntryIds |-> NoOp]
    /\ svc = NoCall

\* __init__.py:26-46: async_setup_entry up to its await: the ActualAPI is
\* built and stored, the platforms are forwarded.
SetupEntryBegin(e) ==
    /\ ops[e].pc = "none"
    /\ ~loaded[e]
    /\ data' = Put(data, e)
    /\ ops' = [ops EXCEPT ![e] = [pc |-> "setup_fwd", reload |-> FALSE]]
    /\ UNCHANGED <<registered, loaded, svc>>
    /\ UNCHANGED notSetup

\* __init__.py:48-52, services.py:110-137: after the await the services are
\* registered when the dict holds one instance; the entry is set up.
SetupEntryEnd(e) ==
    /\ ops[e].pc = "setup_fwd"
    /\ registered' = IF OnlyOnce(data) THEN TRUE ELSE registered
    /\ loaded' = [loaded EXCEPT ![e] = TRUE]
    /\ ops' = [ops EXCEPT ![e] = NoOp]
    /\ UNCHANGED <<data, svc>>
    /\ UNCHANGED notSetup

\* __init__.py:55-58: async_unload_entry up to its await.
UnloadEntryBegin(e) ==
    /\ ops[e].pc = "none"
    /\ loaded[e]
    /\ ops' = [ops EXCEPT ![e] = [pc |-> "unload_plat", reload |-> FALSE]]
    /\ UNCHANGED <<data, registered, loaded, svc>>
    /\ UNCHANGED notSetup

\* __init__.py:60-68, services.py:140-145: the platforms are unloaded or not;
\* when they are, the instance is removed and the services go with the last
\* instance.
UnloadEntryEnd(e) ==
    /\ ops[e].pc = "unload_plat"
    /\ ~ops[e].reload
    /\ \E unload_ok \in BOOLEAN :
          IF unload_ok
          THEN /\ data' = Pop(data, e)
               /\ registered' = IF Pop(data, e) = <<>> THEN FALSE ELSE registered
               /\ loaded' = [loaded EXCEPT ![e] = FALSE]
          ELSE UNCHANGED <<data, registered, loaded>>
    /\ ops' = [ops EXCEPT ![e] = NoOp]
    /\ UNCHANGED svc
    /\ UNCHANGED notSetup

\* __init__.py:71-73: async_reload_entry awaits async_unload_entry.
ReloadEntryBegin(e) ==
    /\ ops[e].pc = "none"
    /\ loaded[e]
    /\ ops' = [ops EXCEPT ![e] = [pc |-> "unload_plat", reload |-> TRUE]]
    /\ UNCHANGED <<data, registered, loaded, svc>>
    /\ UNCHANGED notSetup

\* __init__.py:60-68, 73-74, 26-46: the unload of a reload finishes, and
\* async_setup_entry runs at once, whatever the unload returned, up to its
\* await.
ReloadEntryUnloaded(e) ==
    /\ ops[e].pc = "unload_plat"
    /\ ops[e].reload
    /\ \E unload_ok \in BOOLEAN :
          IF unload_ok
          THEN /\ data' = Put(Pop(data, e), e)
               /\ registered' = IF Pop(data, e) = <<>> THEN FALSE ELSE registered
          ELSE /\ data' = Put(data, e)
               /\ UNCHANGED registered
    /\ ops' = [ops EXCEPT ![e] = [pc |-> "setup_fwd", reload |-> TRUE]]
    /\ UNCHANGED <<loaded, svc>>
    /\ UNCHANGED notSetup

\* A registered service is called: the handler is scheduled.
Dispatch ==
    /\ svc.pc = "idle"
    /\ svc.n < MaxCalls
    /\ registered
    /\ \E name \in ServiceNames :
          svc' = [NoCall EXCEPT !.pc = "dispatched", !.name = name, !.n = svc.n + 1,
                                !.log = svc.log]
    /\ UNCHANGED <<data, registered, loaded, ops>>
    /\ UNCHANGED notSetup

\* services.py:40-51, 56-67, 72-80, 95-103: the handler runs up to its return
\* or its await: without instance it returns the error; the two placeholder
\* services return at once; get_accounts and bank_sync call the instance.
HandlerBegin ==
    /\ svc.pc = "dispatched"
    /\ LET api == GetApiInstance(data)
       IN  svc' =
              IF api = 0
              THEN [svc EXCEPT !.pc = "returned", !.result = "No instances configured"]
              ELSE IF svc.name \in {"get_transactions", "create_splits"}
              THEN [svc EXCEPT !.pc = "returned", !.api = api, !.result = "success"]
              ELSE [svc EXCEPT !.pc = "awaiting", !.api = api, !.apiCalls = 1]
    /\ UNCHANGED <<data, registered, loaded, ops>>
    /\ UNCHANGED notSetup

\* services.py:80-90: get_accounts of the instance returns the accounts.  The
\* sync of bank_sync does not return (actual.py:170-179).
ApiCallReturns ==
    /\ svc.pc = "awaiting"
    /\ svc.name = "get_accounts"
    /\ svc' = [svc EXCEPT !.pc = "returned", !.result = "accounts",
                          !.apiOutcome = "returned"]
    /\ UNCHANGED <<data, registered, loaded, ops>>
    /\ UNCHANGED notSetup

\* services.py:91-93, 106-108: the call of the instance raises: the message is
\* returned.
ApiCallRaises ==
    /\ svc.pc = "awaiting"
    /\ svc' = [svc EXCEPT !.pc = "returned", !.result = "error",
                          !.apiOutcome = "raised"]
    /\ UNCHANGED <<data, registered, loaded, ops>>
    /\ UNCHANGED notSetup

\* The handler has returned to the service registry.
HandlerEnd ==
    /\ svc.pc = "returned"
    /\ svc' = [NoCall EXCEPT !.n = svc.n, !.log = Append(svc.log, svc.result)]
    /\ UNCHANGED <<data, registered, loaded, ops>>
    /\ UNCHANGED notSetup

EntryStep(e) ==
    \/ SetupEntryBegin(e)
    \/ SetupEntryEnd(e)
    \/ UnloadEntryBegin(e)
    \/ UnloadEntryEnd(e)
    \/ ReloadEntryBegin(e)
    \/ ReloadEntryUnloaded(e)

SetupNext ==
    \/ \E e \in EntryIds : EntryStep(e)
    \/ Dispatch
    \/ HandlerBegin
    \/ ApiCallReturns
    \/ ApiCallRaises
    \/ HandlerEnd

(***************************************************************************)
(* The specifications.  Each one runs one part of the integration and      *)
(* leaves the variables of the other parts at rest.                        *)
(***************************************************************************)
SessionRest ==
    /\ actual = 0
    /\ session_started_at = 0
    /\ constructed_at = 0
    /\ lock = 0
    /\ handles = [h \in Handles |-> NoHandle]
    /\ nextHandle = 1
    /\ calls = [t \in Threads |-> IdleCall]

SensorRest ==
    /\ sensor = NewSensor("uncategorized", [count |-> 0], 0)
    /\ update = NoUpdate
    /\ fetchLog = <<>>

BudgetsRest ==
    /\ budgets_raw = <<>>
    /\ budgets_pc = "returned"
    /\ budgets_out = <<>>

FlowRest ==
    /\ flows = [f \in FlowIds |-> NewFlow]
    /\ entries = {}

SetupRest ==
    /\ data = <<>>
    /\ registered = FALSE
    /\ loaded = [e \in EntryIds |-> FALSE]
    /\ ops = [e \in EntryIds |-> NoOp]
    /\ svc = NoCall

Init == SessionInit /\ SensorRest /\ BudgetsRest /\ FlowRest /\ SetupRest

Next == SessionNext

Spec == Init /\ [][Next]_vars

SensorSpecInit == SensorInit /\ SessionRest /\ BudgetsRest /\ FlowRest /\ SetupRest

SensorSpecNext == SensorNext

SensorSpec == SensorSpecInit /\ [][SensorSpecNext]_vars

BudgetsSpecInit ==
    BudgetsInit /\ now = 0 /\ SessionRest /\ SensorRest /\ FlowRest /\ SetupRest

BudgetsSpecNext == BudgetsNext

BudgetsSpec == BudgetsSpecInit /\ [][BudgetsSpecNext]_vars

FlowSpecInit ==
    FlowInit /\ now = 0 /\ SessionRest /\ SensorRest /\ BudgetsRest /\ SetupRest

FlowSpecNext == FlowNext

FlowSpec == FlowSpecInit /\ [][FlowSpecNext]_vars

SetupSpecInit ==
    SetupInit /\ now = 0 /\ SessionRest /\ SensorRest /\ BudgetsRest /\ FlowRest

SetupSpecNext == SetupNext

SetupSpec == SetupSpecInit /\ [][SetupSpecNext]_vars

(***************************************************************************)
(* Vocabulary of the claims about the session manager.                     *)
(***************************************************************************)
Done(t) == calls[t].pc = "done"
Returned(t) == Done(t) /\ calls[t].res = "session"
EvIdx(t) == 1..Len(calls[t].events)
EvAt(t, i) == calls[t].events[i]

\* Event i of the call of t is a check (validate or sync) of the cached handle
\* that failed.
FailedCheckAt(t, i) ==
    \/ /\ EvAt(t, i).m = "validate"
       /\ EvAt(t, i).h # calls[t].local
       /\ EvAt(t, i).o # "validated"
    \/ /\ EvAt(t, i).m = "sync"
       /\ EvAt(t, i).o = "raises"
FailedCheck(t) == \E i \in EvIdx(t) : FailedCheckAt(t, i)

\* Event i of the call of t closed a handle that was too old.
ExpiredAt(t, i) == EvAt(t, i).m = "exit"
FoundExpired(t) == \E i \in EvIdx(t) : ExpiredAt(t, i)

\* The call of t validated handle h with a validated result and then synced
\* it without error.
CheckedInOrder(t, h) ==
    \E i, j \in EvIdx(t) :
        /\ i < j
        /\ EvAt(t, i) = Ev("validate", h, "validated")
        /\ EvAt(t, j) = Ev("sync", h, "ok")

\* The Actual objects the call of t constructed.
NumEnter(t) == Cardinality({i \in EvIdx(t) : EvAt(t, i).m = "enter"})
Stored(t) == \E i \in EvIdx(t) : EvAt(t, i).m = "store"

\* The creation of the call of t raised (__enter__, validate, or a result
\* that is not validated).
CreationFailed(t) == Done(t) /\ calls[t].res = "raised" /\ calls[t].err = "create"

\* The calls of t and u overlap in time.
Concurrent(t, u) == u \in calls[t].peers \/ t \in calls[u].peers

\* The steps of get_session inside the with statement.
Critical ==
    {"gs_expire", "gs_validate", "gs_sync", "gs_create", "gs_new_validate", "gs_store"}

(***************************************************************************)
(* C1.  A call of _sync that finds the mutex free goes on to return: at    *)
(* every moment a _sync call that has not returned either can take its     *)
(* next step or waits for a mutex that another caller holds (and will      *)
(* release).  Stated as the claim; the code violates it.                   *)
(***************************************************************************)
C1_SyncReturns ==
    \A t \in Threads :
        (calls[t].op = "sync" /\ ~Done(t))
            => (ENABLED ThreadStep(t) \/ lock \notin {0, t})

(***************************************************************************)
(* C2.  The handle is created lazily and reused: a new ActualAPI caches no *)
(* handle and has constructed none; a get_session that finds the cache     *)
(* empty constructs one handle; a get_session that finds a cached handle   *)
(* not older than SESSION_TIMEOUT, validates it and syncs it returns the   *)
(* session of that very handle and constructs none.  Stated as the claim;  *)
(* the code violates it.                                                   *)
(***************************************************************************)
C2_LazyAndReused ==
    /\ (nextHandle = 1 => actual = 0)
    /\ \A t \in Threads : Done(t) =>
          /\ (calls[t].events # <<>> /\ EvAt(t, 1).m = "enter") => NumEnter(t) = 1
          /\ \A h \in Handles :
                (/\ Len(calls[t].events) >= 2
                 /\ EvAt(t, 1) = Ev("validate", h, "validated")
                 /\ EvAt(t, 2) = Ev("sync", h, "ok"))
                    => (/\ calls[t].res = "session"
                        /\ calls[t].resHandle = h
                        /\ NumEnter(t) = 0)

(***************************************************************************)
(* C3 as stated.  get_session never returns the session of a handle        *)
(* created more than SESSION_TIMEOUT before the call; a handle found too   *)
(* old is removed from the cache, a new handle is created in the same call *)
(* and session_started_at is reset to the time of that creation.           *)
(***************************************************************************)
C3_AsStated ==
    \A t \in Threads :
        /\ Returned(t) => calls[t].resConstructed + SESSION_TIMEOUT >= calls[t].startedAt
        /\ \A i \in EvIdx(t) : ExpiredAt(t, i) =>
              /\ (calls[t].pc = "gs_validate" => actual = 0)
              /\ (Returned(t) => calls[t].resHandle # EvAt(t, i).h)
              /\ Done(t) => \E j \in EvIdx(t) :
                                /\ j > i
                                /\ EvAt(t, j) = Ev("store", calls[t].local, "ok")
                                /\ calls[t].stampedAt = calls[t].localAt

(***************************************************************************)
(* C3 as amended.  get_session never returns the session of a handle whose *)
(* session_started_at stamp is more than SESSION_TIMEOUT before the call;  *)
(* a handle found too old is closed with __exit__ and removed from the     *)
(* cache whether or not closing raises, and is never returned by that      *)
(* call; the call then either caches a new handle, stamped at a time       *)
(* within the call, or raises the error of the failed creation.            *)
(* session_started_at changes only in the step that caches a newly created *)
(* handle, and becomes the time of that step.                              *)
(***************************************************************************)
C3_FreshState ==
    \A t \in Threads :
        /\ Returned(t) => calls[t].resStamp + SESSION_TIMEOUT >= calls[t].startedAt
        /\ \A i \in EvIdx(t) : ExpiredAt(t, i) =>
              /\ (calls[t].pc = "gs_validate" => actual = 0)
              /\ (Returned(t) => calls[t].resHandle # EvAt(t, i).h)
              /\ Done(t) =>
                    \/ \E j \in EvIdx(t) :
                          /\ j > i
                          /\ EvAt(t, j).m = "store"
                          /\ EvAt(t, j).h = calls[t].local
                          /\ EvAt(t, j).h >= calls[t].known
                          /\ calls[t].stampedAt >= calls[t].startedAt
                    \/ CreationFailed(t)

C3_StampStep ==
    /\ (session_started_at' # session_started_at) =>
          (/\ actual' # 0
           /\ actual' # actual
           /\ handles[actual'] = "open"
           /\ session_started_at' = now)
    /\ (actual' # actual /\ actual' # 0) => session_started_at' = now

C3_Freshness == [](C3_FreshState) /\ [][C3_StampStep]_vars

\* A call found the cached handle too old, closed it, cached a new one and
\* returned its session.
C3_Witness ==
    \E t \in Threads :
        /\ Returned(t)
        /\ FoundExpired(t)
        /\ Stored(t)
        /\ calls[t].resHandle = calls[t].local

(***************************************************************************)
(* C4 as stated.  A returned handle that existed before the call was       *)
(* validated and then synced in that call; when validate() or sync() of    *)
(* the cached handle fails the call returns a newly created handle.        *)
(***************************************************************************)
C4_AsStated ==
    \A t \in Threads : Done(t) =>
        /\ (calls[t].res = "session" /\ calls[t].resHandle < calls[t].known)
              => CheckedInOrder(t, calls[t].resHandle)
        /\ FailedCheck(t) =>
              (calls[t].res = "session" /\ calls[t].resHandle >= calls[t].known)

(***************************************************************************)
(* C4 as amended.  A returned handle that existed before the call was      *)
(* validated with a validated result and then synced without error in that *)
(* call.  When validate() raises or reports not validated, or sync()       *)
(* raises, the handle is dropped from the cache and the call attempts to   *)
(* create a new handle; the error of the check is not reported: the call   *)
(* returns the session of a handle created after the call began, never the *)
(* dropped one, or raises the error of the creation or of reading an empty *)
(* cache.                                                                  *)
(***************************************************************************)
C4_Revalidation ==
    \A t \in Threads :
        /\ (Returned(t) /\ calls[t].resHandle < calls[t].known)
              => CheckedInOrder(t, calls[t].resHandle)
        /\ \A i \in EvIdx(t) : FailedCheckAt(t, i) =>
              /\ (calls[t].pc = "gs_create" => actual = 0)
              /\ Done(t) =>
                    /\ \E j \in EvIdx(t) : j > i /\ EvAt(t, j).m = "enter"
                    /\ calls[t].res = "session" =>
                          /\ calls[t].resHandle >= calls[t].known
                          /\ calls[t].resHandle # EvAt(t, i).h
                    /\ calls[t].res = "raised" =>
                          calls[t].err \in {"create", "attribute"}

\* A call validated a handle that existed before it, the check failed, and the
\* call returned the session of the handle it created instead.
C4_Witness ==
    \E t \in Threads :
        /\ Returned(t)
        /\ FailedCheck(t)
        /\ calls[t].resHandle = calls[t].local
        /\ \E u \in Threads :
              /\ u # t
              /\ Returned(u)
              /\ calls[u].resHandle < calls[u].known
              /\ CheckedInOrder(u, calls[u].resHandle)

LogIdx == 1..Len(fetchLog)

\* The sum of the amounts at the indices I, None counted as 0.
RECURSIVE SumAmounts(_, _)
SumAmounts(amounts, I) ==
    IF I = {} THEN 0
    ELSE LET i == CHOOSE x \in I : TRUE
         IN  (IF amounts[i].amount = None THEN 0 ELSE amounts[i].amount[1])
             + SumAmounts(amounts, I \ {i})

\* The indices of the amounts whose month has begun.
Begun(amounts) == {i \in 1..Len(amounts) : MonthStart(amounts[i].month) <= now}

(***************************************************************************)
(* C7.  A sensor of any of the three classes refreshes at most once a      *)
(* minute: while less than MINIMUM_INTERVAL has passed since the           *)
(* last-updated timestamp no step calls the API or changes a field of the  *)
(* sensor, and an async_update called then returns at once; an API call is *)
(* placed only MINIMUM_INTERVAL or more after the timestamp; so any two    *)
(* fetches that succeeded are at least MINIMUM_INTERVAL apart, by the time *)
(* they were placed and by the time they returned.                         *)
(***************************************************************************)
C7_Spacing ==
    /\ \A i, j \in LogIdx :
          (i < j /\ fetchLog[i].ok = "ok" /\ fetchLog[j].ok = "ok")
              => /\ fetchLog[j].at - fetchLog[i].at >= MINIMUM_INTERVAL
                 /\ fetchLog[j].done - fetchLog[i].done >= MINIMUM_INTERVAL
    /\ update.pc = "awaiting" =>
          fetchLog[Len(fetchLog)].at - sensor.last_updated >= MINIMUM_INTERVAL

C7_SkipStep ==
    (now - sensor.last_updated < MINIMUM_INTERVAL) =>
        /\ sensor' = sensor
        /\ fetchLog' = fetchLog
        /\ (update.pc = "idle" /\ update'.pc # "idle") =>
              (update'.pc = "returned" /\ update'.outcome = "skipped")

C7_MinimumInterval == [](C7_Spacing) /\ [][C7_SkipStep]_vars

\* Two fetches succeeded exactly MINIMUM_INTERVAL apart, and the async_update
\* called right after the second one returned without fetching.
C7_Witness ==
    /\ Len(fetchLog) = 2
    /\ fetchLog[1].ok = "ok" /\ fetchLog[2].ok = "ok"
    /\ fetchLog[2].at - fetchLog[1].at = MINIMUM_INTERVAL
    /\ update.pc = "returned" /\ update.outcome = "skipped"

(***************************************************************************)
(* C8.  When the API call of async_update raises, async_update returns     *)
(* normally, the available flag of the sensor becomes False, and the       *)
(* reported value (balance, amounts, count), the id, the group and the     *)
(* last-updated timestamp keep their values.                               *)
(***************************************************************************)
C8_RaiseStep ==
    (update.pc = "awaiting" /\ update'.outcome = "raised") =>
        /\ update'.pc = "returned"
        /\ sensor'.available = FALSE
        /\ sensor'.balance = sensor.balance
        /\ sensor'.amounts = sensor.amounts
        /\ sensor'.count = sensor.count
        /\ sensor'.id = sensor.id
        /\ sensor'.group_name = sensor.group_name
        /\ sensor'.last_updated = sensor.last_updated
        /\ BudgetState(sensor') = BudgetState(sensor)

C8_CatchAndMarkUnavailable ==
    [](update.outcome = "raised" => ~sensor.available) /\ [][C8_RaiseStep]_vars

\* A budget sensor that was refreshed once and whose next API call raised, some
\* time after the refresh.
C8_Witness ==
    /\ sensor.kind = "budget"
    /\ update.pc = "returned" /\ update.outcome = "raised"
    /\ ~sensor.available
    /\ Len(fetchLog) = 2 /\ fetchLog[1].ok = "ok"
    /\ sensor.last_updated = fetchLog[1].done
    /\ now > sensor.last_updated

(***************************************************************************)
(* C10.  The state of a budget sensor is the category balance plus the sum *)
(* of the amounts of exactly those BudgetAmounts whose month has begun     *)
(* (the first instant of the month is not after the current time), a None  *)
(* amount counted as 0; the amounts of later months contribute nothing:    *)
(* the state is the state of the same sensor without them.                 *)
(***************************************************************************)
C10_RunningBalance ==
    sensor.kind = "budget" =>
        /\ BudgetState(sensor) =
              sensor.balance + SumAmounts(sensor.amounts, Begun(sensor.amounts))
        /\ BudgetState(sensor) =
              BudgetState([sensor EXCEPT !.amounts =
                  SelectSeq(sensor.amounts, LAMBDA a : MonthStart(a.month) <= now)])
        /\ (\A i \in 1..Len(sensor.amounts) : sensor.amounts[i].amount = None)
              => BudgetState(sensor) = sensor.balance

\* A budget sensor, refreshed by _get_budget, that holds an amount for a month
\* that has begun and an amount for a month that has not: only the first is
\* in the state.
C10_Witness ==
    /\ sensor.kind = "budget"
    /\ update.outcome = "updated"
    /\ \E i, j \in 1..Len(sensor.amounts) :
          /\ sensor.amounts[i].month = 202402
          /\ sensor.amounts[i].amount # None
          /\ sensor.amounts[j].month = 202403
          /\ sensor.amounts[j].amount # None
          /\ BudgetState(sensor) = sensor.balance + sensor.amounts[i].amount[1]

(***************************************************************************)
(* Vocabulary of the claim about _get_budgets.                             *)
(***************************************************************************)
\* The display name of a row, as the claim states it.
RowName(row) ==
    IF row.category.group = ""
    THEN row.category.name
    ELSE row.category.group \o " - " \o row.category.name

\* The rows that have a category.
Categorized == {k \in 1..Len(budgets_raw) : budgets_raw[k].category # NoCategory}

AmountCount == [i \in 1..Len(budgets_out) |-> Len(budgets_out[i].amounts)]

RECURSIVE SumLens(_, _)
SumLens(f, n) == IF n = 0 THEN 0 ELSE f[n] + SumLens(f, n - 1)

(***************************************************************************)
(* C9.  _get_budgets returns exactly one Budget for each distinct display  *)
(* name among the rows that have a category; every such row contributes    *)
(* exactly one BudgetAmount, its month and amount, to the Budget of its    *)
(* display name and to no other; rows without category contribute nothing; *)
(* so the BudgetAmounts of all Budgets together are as many as the rows    *)
(* that have a category.                                                   *)
(***************************************************************************)
C9_Grouping ==
    budgets_pc = "returned" =>
        /\ {budgets_out[i].key : i \in 1..Len(budgets_out)}
              = {RowName(budgets_raw[k]) : k \in Categorized}
        /\ \A i, j \in 1..Len(budgets_out) :
              budgets_out[i].key = budgets_out[j].key => i = j
        /\ \A i \in 1..Len(budgets_out) :
              \A m \in BudgetMonths, a \in {None, Some(1250)} :
                 Cardinality({n \in 1..Len(budgets_out[i].amounts) :
                                 budgets_out[i].amounts[n] = [month |-> m, amount |-> a]})
                 = Cardinality({k \in Categorized :
                                 /\ RowName(budgets_raw[k]) = budgets_out[i].key
                                 /\ budgets_raw[k].month = m
                                 /\ (IF budgets_raw[k].amount = Some(0)
                                     THEN None ELSE budgets_raw[k].amount) = a})
        /\ SumLens(AmountCount, Len(budgets_out)) = Cardinality(Categorized)

\* Three rows: two of them, of different categories, share the display name
\* "Home - Food" and land in one Budget; the third row has no category.
C9_Witness ==
    /\ budgets_pc = "returned"
    /\ Len(budgets_raw) = 3
    /\ Cardinality(Categorized) = 2
    /\ \E k, l \in Categorized :
          /\ budgets_raw[k].category.id = "c1"
          /\ budgets_raw[l].category.id = "c2"
    /\ Len(budgets_out) = 1
    /\ Len(budgets_out[1].amounts) = 2

(***************************************************************************)
(* C6.  The config flow creates an entry only after the connection test    *)
(* returned no error for the submitted input: every entry was created by a *)
(* flow whose test of that very input returned None, and entries are added *)
(* in no other step.  When the test returns an error code no entry is      *)
(* created and the form is shown again with errors.base equal to the code. *)
(***************************************************************************)
C6_State ==
    /\ \A e \in entries :
          /\ flows[e.by].pc = "created"
          /\ flows[e.by].result = ""
          /\ flows[e.by].file = e.file
    /\ \A f \in FlowIds :
          /\ flows[f].pc = "created" => flows[f].result = ""
          /\ (flows[f].pc = "form" /\ flows[f].n > 0) =>
                /\ flows[f].result \in
                      {"failed_ssl", "failed_connection", "failed_auth",
                       "failed_file", "failed_unknown"}
                /\ flows[f].errors = flows[f].result
                /\ \A e \in entries : e.by # f

C6_Step ==
    \A f \in FlowIds :
        /\ (entries' # entries) =>
              \E g \in FlowIds :
                  /\ flows[g].pc = "tested" /\ flows[g].result = ""
                  /\ entries' = entries \cup
                        {[unique_id |-> flows[g].unique_id, file |-> flows[g].file,
                          by |-> g]}
        /\ (flows[f].pc = "tested" /\ flows[f].result # "" /\ flows'[f] # flows[f]) =>
              /\ entries' = entries
              /\ flows'[f].pc = "form"
              /\ flows'[f].errors = flows[f].result

C6_TestBeforeEntry == [](C6_State) /\ [][C6_Step]_vars

\* One flow was refused with failed_auth, showed the form with that error,
\* was submitted again, passed the test and created the entry; another flow
\* shows the form with the error of its own failed test.
C6_Witness ==
    \E f, g \in FlowIds :
        /\ f # g
        /\ flows[f].pc = "created" /\ flows[f].n = 2
        /\ \E e \in entries : e.by = f /\ e.file = flows[f].file
        /\ flows[g].pc = "form" /\ flows[g].errors = "failed_auth"
        /\ \A e \in entries : e.by # g

(***************************************************************************)
(* Vocabulary of the claims about the set-up and the services.             *)
(***************************************************************************)
\* No setup, unload or reload is in progress.
Quiescent == \A e \in EntryIds : ops[e].pc = "none"

(***************************************************************************)
(* C11.  Once all started setups, unloads and reloads have completed, the  *)
(* four services are registered if and only if hass.data[DOMAIN] holds at  *)
(* least one API instance.                                                 *)
(***************************************************************************)
C11_RegisteredIffInstance == Quiescent => (registered <=> data # <<>>)

(***************************************************************************)
(* C12.  test_connection never raises and reports a fixed code: None       *)
(* exactly when get_session produced a session; failed_ssl for an          *)
(* SSLError, failed_connection for any other ConnectionError, failed_auth  *)
(* for an AuthorizationError, failed_file for UnknownFileId, InvalidFile,  *)
(* InvalidZipFile or a falsy session, failed_unknown for every other       *)
(* exception, a new session that is not validated included.                *)
(***************************************************************************)
C12_FixedCodes ==
    \A f \in FlowIds :
        (flows[f].pc = "tested" /\ flows[f].outcome # "constructor_raises") =>
            LET o == flows[f].outcome
                code == flows[f].result
            IN  /\ code \in {"", "failed_ssl", "failed_connection", "failed_auth",
                             "failed_file", "failed_unknown"}
                /\ code = "" <=> o = "session"
                /\ o = "SSLError" => code = "failed_ssl"
                /\ o = "ConnectionError" => code = "failed_connection"
                /\ o = "AuthorizationError" => code = "failed_auth"
                /\ o \in {"UnknownFileId", "InvalidFile", "InvalidZipFile", "no_session"}
                      => code = "failed_file"
                /\ o \in {"not_validated", "Exception", "executor_raises"}
                      => code = "failed_unknown"

\* One test ended with an SSLError and returned failed_ssl while the test of
\* the other flow met a session that the server did not validate and returned
\* failed_unknown.
C12_Witness ==
    \E f, g \in FlowIds :
        /\ flows[f].pc = "tested" /\ flows[f].outcome = "SSLError"
        /\ flows[f].result = "failed_ssl"
        /\ flows[g].pc = "tested" /\ flows[g].outcome = "not_validated"
        /\ flows[g].result = "failed_unknown"

(***************************************************************************)
(* C13.  A service handler never raises: every step of it ends in a return *)
(* or in the await of the API call.  Without instance it returns the error *)
(* 'No instances configured' and has made no API call; otherwise it acts   *)
(* on the first instance of hass.data[DOMAIN] in insertion order; an       *)
(* exception of the API call is returned as an error.                      *)
(***************************************************************************)
C13_State ==
    /\ svc.pc \in {"idle", "dispatched", "awaiting", "returned"}
    /\ svc.pc = "returned" =>
          svc.result \in {"No instances configured", "success", "accounts", "error"}
    /\ svc.result = "No instances configured" => (svc.apiCalls = 0 /\ svc.api = 0)
    /\ svc.apiOutcome = "raised" => (svc.pc = "returned" /\ svc.result = "error")
    /\ svc.apiCalls = 1 => svc.api # 0

C13_Step ==
    /\ (svc.pc = "dispatched" /\ svc' # svc) =>
          IF data = <<>>
          THEN /\ svc'.pc = "returned"
               /\ svc'.result = "No instances configured"
               /\ svc'.apiCalls = 0
          ELSE /\ svc'.api = data[1]
               /\ svc'.result # "No instances configured"
               /\ svc'.pc \in {"returned", "awaiting"}
    /\ (svc.pc = "awaiting" /\ svc' # svc) =>
          /\ svc'.pc = "returned"
          /\ svc'.api = svc.api
          /\ svc'.apiOutcome = "raised" => svc'.result = "error"

C13_HandlersNeverRaise == [](C13_State) /\ [][C13_Step]_vars

\* A handler that was scheduled before the last entry was unloaded found no
\* instance; later get_accounts or bank_sync, called with two instances of
\* which the entry set up first is not the one with the lowest id, called the
\* first one, and its exception came back as an error.
C13_Witness ==
    /\ svc.log = <<"No instances configured">>
    /\ svc.pc = "returned" /\ svc.result = "error"
    /\ Len(data) = 2 /\ data[1] = 2
    /\ svc.api = 2

(***************************************************************************)
(* C14.  The lower-cased file ID is the unique identifier of an entry: a   *)
(* form submitted with a file ID that equals, ignoring letter case, the    *)
(* file ID of a configured entry aborts without starting a connection test *)
(* and without creating an entry; no two entries have file IDs that differ *)
(* only in case.                                                           *)
(***************************************************************************)
SameIgnoringCase(a, b) == a = b \/ {a, b} = {"ab", "AB"}

C14_State ==
    /\ \A e1, e2 \in entries : SameIgnoringCase(e1.file, e2.file) => e1 = e2
    /\ \A e \in entries : SameIgnoringCase(e.unique_id, e.file)

C14_Step ==
    \A f \in FlowIds :
        (/\ flows[f].pc = "form"
         /\ flows'[f] # flows[f]
         /\ \E e \in entries : SameIgnoringCase(e.file, flows'[f].file)) =>
            /\ flows'[f].pc = "aborted"
            /\ flows'[f].tests = flows[f].tests
            /\ entries' = entries

C14_UniqueFileId == [](C14_State) /\ [][C14_Step]_vars

\* One flow created the entry of file "ab"; the other flow, submitted with
\* "AB" afterwards, was aborted as already configured and never started a
\* connection test.
C14_Witness ==
    \E f, g \in FlowIds :
        /\ flows[f].pc = "created" /\ flows[f].file = "ab"
        /\ \E e \in entries : e.by = f /\ e.file = "ab"
        /\ flows[g].pc = "aborted" /\ flows[g].file = "AB"
        /\ flows[g].reason = "already_configured"
        /\ flows[g].tests = 0
        /\ Cardinality(entries) = 1

(***************************************************************************)
(* Vocabulary of the claims about the return of get_session and about the  *)
(* handles that are open.                                                  *)
(***************************************************************************)
\* The call of t passed the with statement of get_session.
PassedLock(t) == Done(t) /\ calls[t].op = "get_session" /\ calls[t].err # "create"

\* The handles that were entered and on which __exit__ was never called.
Open == {h \in Handles : handles[h] = "open"}

\* A call is between the __enter__ of h and the moment it caches h.
BeingCreated(h) ==
    \E t \in Threads : calls[t].pc \in {"gs_new_validate", "gs_store"} /\ calls[t].local = h

(***************************************************************************)
(* C15.  Under any interleaving of get_session callers the session a call  *)
(* returns belongs to the handle this call created, or validated and       *)
(* synced, while it held the mutex; the read at the return statement never *)
(* finds the cache empty or holding another handle.  Stated as the claim;  *)
(* the code violates it.                                                   *)
(***************************************************************************)
C15_ReturnsOwnHandle ==
    \A t \in Threads :
        PassedLock(t) =>
            /\ calls[t].res = "session"
            /\ calls[t].resHandle # 0
            /\ Stored(t) => calls[t].resHandle = calls[t].local
            /\ ~Stored(t) => CheckedInOrder(t, calls[t].resHandle)

(***************************************************************************)
(* C16.  No handle is leaked: a handle that was entered and on which       *)
(* __exit__ was never called is the cached one or the one a call is just   *)
(* creating, so a handle that get_session removed from the cache or that   *)
(* _create_session abandoned has been closed; hence at most one handle of  *)
(* an ActualAPI is open at any moment.  Stated as the claim; the code      *)
(* violates it.                                                            *)
(***************************************************************************)
C16_NoLeak ==
    /\ \A h \in Open : h = actual \/ BeingCreated(h)
    /\ Cardinality(Open) <= 1

====
